---- MODULE Spec2Model ----
(***************************************************************************)
(* A model of sulphate's event queue (src/src/event_queue.rs), of its      *)
(* server loop (src/src/server.rs), of its entity store                    *)
(* (src/src/entity_heap.rs) and of its simple clock (src/src/clock.rs).    *)
(*                                                                         *)
(* Time is an ordered scalar; it is modelled by the naturals 0..MaxTime.   *)
(* A queue element is a record [id, execute_time]; id is the position of   *)
(* the element in the order of insertion, and stands for its call_back.    *)
(* The BinaryHeap is modelled by the set of its elements: pop returns a    *)
(* greatest element of the Ord of QueueElement, which compares the         *)
(* execute_time only, so among elements of equal execute_time the heap     *)
(* may return any.                                                         *)
(*                                                                         *)
(* Spec drives the queue through its public operations.  SpecServer is     *)
(* Server::run with its environment: the senders of the channel and the    *)
(* clock, whose in_game answers never decrease.  A turn of the loop is one *)
(* step, up to the point where the thread sleeps or blocks; the difference *)
(* of Instants in recv_timeout_or_sleep is taken as saturating at zero.    *)
(* The variables hi, late, last, feedback, applied and start are history:  *)
(* no guard of the program reads them.                                     *)
(*                                                                         *)
(* SpecHeap drives an EntityHeap through add, get and remove; its random   *)
(* number generator may answer any UID.  SpecClock drives a Simple clock   *)
(* through start, stop and in_game at wall instants that never decrease.   *)
(* The variables shadow, issued, hlast and clast are history.              *)
(***************************************************************************)
EXTENDS Integers, Sequences, FiniteSets, TLC

\* Bounds of the model.
MaxTime == 2
MaxEvents == 3
MaxMsgs == 2
MaxCycles == 2
MaxUid == 1
MaxWall == 4

Times == 0..MaxTime

\* Option::None of an Option<T>, and of an Option<QueueElement>.
NoTime == -1
NoEvent == [id |-> -1, execute_time |-> NoTime]

\* No simulate call is in progress.
NoSim == [until |-> NoTime, now0 |-> NoTime, invoked0 |-> 0, nextId0 |-> 0]

VARIABLES
    now,          \* EventQueue::now
    queue,        \* EventQueue::queue, the set of the heap's elements
    nextId,       \* the number of elements pushed so far
    invoked,      \* the number of call_backs invoked so far
    hi,           \* the greatest execute_time invoked so far
    late,         \* whether an element was pushed after the first invocation
    pc,           \* the position of the caller
    sim,          \* the frame of a simulate call in progress
    last,         \* the last operation of the queue that completed
    channel,      \* the messages sent to Server::external and not yet received
    connected,    \* whether a Sender of the channel is still alive
    sent,         \* the number of messages sent so far
    clock,        \* the in-game time Clock::in_game answers at this instant
    should_exit,  \* the local of Server::run
    et,           \* the local et of Server::run while it sleeps
    end_cycles,   \* the number of calls of Clock::end_cycles
    feedback,     \* the last call of the clock's feedback
    applied,      \* the interruptions applied so far, in order
    start,        \* what Server::run found when it was called
    observe,      \* whether last, feedback and applied are recorded
    content,      \* EntityHeap::content
    shadow,       \* what the last add or remove of each (type, uid) left
    issued,       \* the (type, uid) pairs add has returned so far
    hlast,        \* the last operation of the entity heap that completed
    start_instant, \* Simple::start_instant
    last_time,    \* Simple::last_time
    wall,         \* the wall instant, as Instant::now() answers it
    clast         \* the last operation of the simple clock that completed

qvars == <<now, queue, nextId, invoked, hi, late, pc, sim, last>>

qvars_but_pc == <<now, queue, nextId, invoked, hi, late, sim, last>>

hvars == <<content, shadow, issued, hlast>>

cvars == <<start_instant, last_time, wall, clast>>

xvars == <<hvars, cvars>>

svars == <<channel, connected, sent, clock, should_exit, et, end_cycles,
           feedback, applied, start, observe, xvars>>

vars == <<qvars, svars>>

----------------------------------------------------------------------------
\* EventQueue

Min(S) == CHOOSE x \in S : \A y \in S : x <= y

Max2(a, b) == IF a < b THEN b ELSE a

Min2(a, b) == IF a < b THEN a ELSE b

\* BinaryHeap::peek under the Ord of QueueElement: the elements that compare
\* greatest, which are those of the lowest execute_time.
peek(q) == {e \in q : \A o \in q : e.execute_time <= o.execute_time}

soonest(q) == IF q = {} THEN NoTime ELSE Min({e.execute_time : e \in q})

\* has_event_by with < for <=.
has_event_by_strict(q, time) ==
    IF soonest(q) # NoTime THEN soonest(q) < time ELSE FALSE

has_event_by(q, time) ==
    IF soonest(q) # NoTime THEN soonest(q) <= time ELSE FALSE

is_empty(q) == q = {}

enqueue_absolute(q, event, execute_time) ==
    q \cup {[id |-> event, execute_time |-> execute_time]}

\* progress_time without its look at the queue.
progress_time_until(q, until) == until

\* The value progress_time assigns to now.
progress_time(q, until) ==
    IF has_event_by(q, until) THEN soonest(q) ELSE until

\* A pop that ignores the order of the heap.
pop_any(q) == q

\* BinaryHeap::pop: the elements one of which is removed and returned.
pop(q) == peek(q)

\* invoke_next without its comparison of now and execute_time.
now_after_pop_unguarded(n, execute_time) == execute_time

\* The value invoke_next leaves in now after popping an element.
now_after_pop(n, execute_time) == IF n < execute_time THEN execute_time ELSE n

----------------------------------------------------------------------------
\* What the invoke of an event does to the game: nothing, or one enqueue.
Callbacks ==
    {[kind |-> "none", arg |-> 0]}
        \cup {[kind |-> "absolute", arg |-> t] : t \in Times}
        \cup {[kind |-> "relative", arg |-> d] : d \in Times}

\* The enqueues that the messages in flight will make when they are applied.
Reserved == Cardinality({i \in DOMAIN channel : channel[i].enq # NoTime})

\* The record of an operation: its name, argument and result, the element it
\* popped, the numbers of call_backs it invoked and of elements pushed
\* meanwhile, and now, the queue and hi as they were when it was called.
Record(op, arg, ret, ev) ==
    [op |-> op, arg |-> arg, ret |-> ret, ev |-> ev, n |-> 0, m |-> 0,
     now0 |-> now, queue0 |-> queue, hi0 |-> hi]

\* Simulation::invoke_next with a non-empty queue: pops e, moves now, and
\* invokes the call_back, which behaves as cb.
Dispatch(e, cb) ==
    /\ e \in pop(queue)
    /\ now' = now_after_pop(now, e.execute_time)
    /\ invoked' = invoked + 1
    /\ CASE cb.kind = "none" ->
              /\ queue' = queue \ {e}
              /\ nextId' = nextId
         [] cb.kind = "absolute" ->
              /\ nextId + Reserved < MaxEvents
              /\ queue' = enqueue_absolute(queue \ {e}, nextId, cb.arg)
              /\ nextId' = nextId + 1
         [] cb.kind = "relative" ->
              /\ nextId + Reserved < MaxEvents
              /\ now' + cb.arg <= MaxTime
              /\ queue' = enqueue_absolute(queue \ {e}, nextId, now' + cb.arg)
              /\ nextId' = nextId + 1

\* The record of Dispatch(e, cb) kept by the callers of the queue.
Dispatching(e, cb) ==
    /\ hi' = Max2(hi, e.execute_time)
    /\ late' = (late \/ cb.kind # "none")
    /\ last' = [Record("invoke_next", NoTime, TRUE, e) EXCEPT
                    !.n = 1, !.m = IF cb.kind = "none" THEN 0 ELSE 1]

\* The types of entities, the UIDs and the entities of the model.
Types == {"V", "W"}

UIDs == 0..MaxUid

Values == {"a", "b"}

\* Option::None of an Option<&T> or Option<T>.
NoValue == "None"

\* The wall instants of the model.
Instants == 0..MaxWall

\* No operation of the entity heap has completed.
NoHeapOp ==
    [op |-> "new", ty |-> "V", uid |-> 0, val |-> NoValue, ret |-> NoValue,
     was |-> NoValue, had |-> FALSE, reissued |-> FALSE, grown |-> 0,
     others |-> TRUE]

\* No operation of the simple clock has completed.
NoClockOp ==
    [op |-> "new", at |-> NoTime, before |-> NoTime, reading |-> NoTime,
     prev |-> NoTime]

\* The entity heap while no caller uses it: as EntityHeap::new leaves it.
HeapIdle ==
    /\ content = <<>>
    /\ shadow = [k \in Types \X UIDs |-> NoValue]
    /\ issued = {}
    /\ hlast = NoHeapOp

\* The simple clock while no caller uses it.
ClockIdle ==
    /\ start_instant = NoTime
    /\ last_time = 0
    /\ wall = 0
    /\ clast = NoClockOp

\* The server's variables while the queue is driven without a server.
NoStart == [closed |-> FALSE, channel_empty |-> FALSE, queue_empty |-> FALSE]

ServerIdle ==
    /\ channel = <<>>
    /\ connected = TRUE
    /\ sent = 0
    /\ clock = 0
    /\ should_exit = FALSE
    /\ et = NoTime
    /\ end_cycles = 0
    /\ feedback = "none"
    /\ applied = <<>>
    /\ start = NoStart
    /\ observe = TRUE

Init ==
    /\ ServerIdle
    /\ HeapIdle
    /\ ClockIdle
    /\ now \in Times
    /\ queue = {}
    /\ nextId = 0
    /\ invoked = 0
    /\ hi = NoTime
    /\ late = FALSE
    /\ pc = "idle"
    /\ sim = NoSim
    /\ last = [op |-> "new", arg |-> now, ret |-> FALSE, ev |-> NoEvent,
               n |-> 0, m |-> 0, now0 |-> now, queue0 |-> {}, hi0 |-> NoTime]

EnqueueAbsolute ==
    /\ pc = "idle"
    /\ nextId < MaxEvents
    /\ \E t \in Times :
          /\ queue' = enqueue_absolute(queue, nextId, t)
          /\ last' = Record("enqueue_absolute", t, FALSE, NoEvent)
    /\ nextId' = nextId + 1
    /\ late' = (late \/ invoked > 0)
    /\ UNCHANGED <<now, invoked, hi, pc, sim, svars>>

EnqueueRelative ==
    /\ pc = "idle"
    /\ nextId < MaxEvents
    /\ \E d \in Times :
          /\ now + d <= MaxTime
          /\ queue' = enqueue_absolute(queue, nextId, now + d)
          /\ last' = Record("enqueue_relative", d, FALSE, NoEvent)
    /\ nextId' = nextId + 1
    /\ late' = (late \/ invoked > 0)
    /\ UNCHANGED <<now, invoked, hi, pc, sim, svars>>

ProgressTime ==
    /\ pc = "idle"
    /\ \E until \in Times :
          /\ now' = progress_time(queue, until)
          /\ last' = Record("progress_time", until,
                            has_event_by(queue, until), NoEvent)
    /\ UNCHANGED <<queue, nextId, invoked, hi, late, pc, sim, svars>>

InvokeNextEmpty ==
    /\ pc = "idle"
    /\ queue = {}
    /\ last' = Record("invoke_next", NoTime, FALSE, NoEvent)
    /\ UNCHANGED <<now, queue, nextId, invoked, hi, late, pc, sim, svars>>

InvokeNext ==
    /\ pc = "idle"
    /\ \E e \in queue, cb \in Callbacks :
          Dispatch(e, cb) /\ Dispatching(e, cb)
    /\ UNCHANGED <<pc, sim, svars>>

\* Simulation::simulate: the call, one turn of its loop, and its return.
SimulateCall ==
    /\ pc = "idle"
    /\ \E until \in Times :
          /\ sim' = [until |-> until, now0 |-> now, invoked0 |-> invoked,
                     nextId0 |-> nextId]
          /\ last' = Record("simulate_call", until, FALSE, NoEvent)
    /\ pc' = "simulate"
    /\ UNCHANGED <<now, queue, nextId, invoked, hi, late, svars>>

SimulateLoop ==
    /\ pc = "simulate"
    /\ has_event_by(queue, sim.until)
    /\ \E e \in queue, cb \in Callbacks :
          Dispatch(e, cb) /\ Dispatching(e, cb)
    /\ UNCHANGED <<pc, sim, svars>>

SimulateReturn ==
    /\ pc = "simulate"
    /\ ~has_event_by(queue, sim.until)
    /\ now' = sim.until
    /\ pc' = "idle"
    /\ last' = [op |-> "simulate", arg |-> sim.until, ret |-> FALSE,
                ev |-> NoEvent, n |-> invoked - sim.invoked0,
                m |-> nextId - sim.nextId0, now0 |-> sim.now0,
                queue0 |-> queue, hi0 |-> hi]
    /\ sim' = NoSim
    /\ UNCHANGED <<queue, nextId, invoked, hi, late, svars>>

Next ==
    \/ EnqueueAbsolute
    \/ EnqueueRelative
    \/ ProgressTime
    \/ InvokeNextEmpty
    \/ InvokeNext
    \/ SimulateCall
    \/ SimulateLoop
    \/ SimulateReturn

Spec == Init /\ [][Next]_vars

----------------------------------------------------------------------------
\* Server

\* An interruption: its place in the order of sending, whether its update
\* returns true, and the execute_time of the event its update enqueues
\* (NoTime: it enqueues none).
Interruptions(id) == [id : {id}, stop : BOOLEAN, enq : {NoTime, 0, MaxTime}]

\* The queues a server is constructed with: empty, or holding one event.
InitQueues == {{}} \cup {enqueue_absolute({}, 0, t) : t \in Times}

\* A loop that blocks in recv whenever no event is due.
branch_idle_blocks(ch, q, in_game) ==
    IF ch # <<>> THEN "update"
    ELSE IF soonest(q) # NoTime /\ soonest(q) <= in_game THEN "invoke"
    ELSE "recv"

\* A loop that invokes the soonest event without waiting for the clock.
branch_eager(ch, q, in_game) ==
    IF ch # <<>> THEN "update"
    ELSE IF soonest(q) # NoTime THEN "invoke"
    ELSE "recv"

\* The branch one turn of the loop of Server::run takes.
branch(ch, q, in_game) ==
    IF ch # <<>> THEN "update"
    ELSE IF soonest(q) # NoTime
           THEN IF soonest(q) <= in_game THEN "invoke" ELSE "sleep"
    ELSE "recv"

\* The record of an operation of the server on the queue: the time the
\* server passed to it, and now as it was before.
ServerRecord(op, arg, ret, ev) ==
    IF observe
      THEN [Record(op, arg, ret, ev) EXCEPT !.queue0 = {}, !.hi0 = NoTime]
      ELSE last

\* The record of a call of the clock's feedback.
Feedback(call) == IF observe THEN call ELSE feedback

\* The record of an apply_update: the time passed to progress_time, the
\* result of the update, now as it was before, the receive that answered
\* the interruption (the position of the loop), the last call of the
\* clock's feedback before the update, and the interruption.
UpdateRecord(upd, at) ==
    IF observe
      THEN [op |-> "apply_update", arg |-> at, ret |-> upd.stop,
            ev |-> NoEvent, n |-> 0, m |-> 0, now0 |-> now, queue0 |-> {},
            hi0 |-> NoTime, by |-> pc, fb |-> feedback', id |-> upd.id]
      ELSE last

\* A receive that leaves the message it answers in the channel.
received_kept(ch) == ch

\* The channel after try_recv, recv_timeout or recv answered its first
\* message.
received(ch) == Tail(ch)

\* An apply_update that returns the result of progress_time.
apply_update_result_progress(q, upd, in_game) == has_event_by(q, in_game)

\* What Game::apply_update returns: the result of the update.
apply_update_result(q, upd, in_game) == upd.stop

\* Game::apply_update, and the assignment of its result to should_exit.
apply_update(upd, in_game) ==
    /\ now' = progress_time(queue, in_game)
    /\ IF upd.enq # NoTime
          THEN /\ queue' = enqueue_absolute(queue, nextId, upd.enq)
               /\ nextId' = nextId + 1
          ELSE UNCHANGED <<queue, nextId>>
    /\ applied' = IF observe THEN Append(applied, upd) ELSE applied
    /\ last' = UpdateRecord(upd, in_game)
    /\ should_exit' = apply_update_result(queue, upd, in_game)
    /\ channel' = received(channel)
    /\ UNCHANGED <<invoked, hi, late, sim>>

\* A loop that calls end_cycles before it blocks.
cycles_before_recv_eager(n) == n + 1

\* The calls of end_cycles made when the loop enters its blocking receive:
\* none, end_cycles is called once a message was received.
cycles_before_recv(n) == n

\* The state in which Server::run is called.
ServerStart ==
    /\ HeapIdle
    /\ ClockIdle
    /\ channel = <<>>
    /\ connected \in BOOLEAN
    /\ sent = 0
    /\ clock = 0
    /\ should_exit = FALSE
    /\ et = NoTime
    /\ end_cycles = 0
    /\ feedback = "none"
    /\ applied = <<>>
    /\ now = 0
    /\ queue \in InitQueues
    /\ start = [closed |-> ~connected, channel_empty |-> channel = <<>>,
                queue_empty |-> queue = {}]
    /\ nextId = Cardinality(queue)
    /\ invoked = 0
    /\ hi = NoTime
    /\ late = FALSE
    /\ pc = "run"
    /\ sim = NoSim
    /\ last = [op |-> "new", arg |-> now, ret |-> FALSE, ev |-> NoEvent,
               n |-> 0, m |-> 0, now0 |-> now, queue0 |-> {},
               hi0 |-> NoTime]

ServerInit == ServerStart /\ observe = TRUE

\* The same state, with the history left unrecorded.
QuietInit == ServerStart /\ observe = FALSE

\* try_recv answers a message: it is applied at the clock's time.
RunUpdate ==
    /\ pc = "run"
    /\ ~should_exit
    /\ branch(channel, queue, clock) = "update"
    /\ feedback' = Feedback("finished_cycle")
    /\ apply_update(Head(channel), clock)
    /\ UNCHANGED <<pc, connected, sent, clock, et, end_cycles, start,
                   observe, xvars>>

\* No message, and the soonest event is due: it is invoked.
RunInvoke ==
    /\ pc = "run"
    /\ ~should_exit
    /\ branch(channel, queue, clock) = "invoke"
    /\ feedback' = Feedback("finished_cycle")
    /\ \E e \in queue, cb \in Callbacks :
          /\ Dispatch(e, cb)
          /\ last' = ServerRecord("invoke_next", clock, TRUE, e)
    /\ UNCHANGED <<hi, late, pc, sim, channel, connected, sent, clock,
                   should_exit, et, end_cycles, applied, start, observe, xvars>>

\* No message, and the soonest event is not due: the loop sleeps for it.
\* The number of turns that sleep is capped through end_cycles.
RunSleep ==
    /\ pc = "run"
    /\ ~should_exit
    /\ branch(channel, queue, clock) = "sleep"
    /\ end_cycles < MaxCycles
    /\ end_cycles' = end_cycles + 1
    /\ feedback' = Feedback("end_cycles")
    /\ et' = soonest(queue)
    /\ pc' = "sleep"
    /\ UNCHANGED <<qvars_but_pc, channel, connected, sent, clock,
                   should_exit, applied, start, observe, xvars>>

\* recv_timeout_or_sleep answers a message: it is applied at et.
SleepUpdate ==
    /\ pc = "sleep"
    /\ channel # <<>>
    /\ UNCHANGED <<connected, sent, clock, end_cycles, feedback, start,
                   observe, xvars>>
    /\ apply_update(Head(channel), et)
    /\ pc' = "run"
    /\ et' = NoTime

\* recv_timeout_or_sleep answers None: the timeout passed or the channel is
\* closed, and the rest of the time was slept.
SleepTimeout ==
    /\ pc = "sleep"
    /\ channel = <<>>
    /\ pc' = "run"
    /\ et' = NoTime
    /\ UNCHANGED <<qvars_but_pc, channel, connected, sent, clock,
                   should_exit, end_cycles, feedback, applied, start,
                   observe, xvars>>

\* No message and no event: the loop enters the blocking receive.
RunBlock ==
    /\ pc = "run"
    /\ ~should_exit
    /\ branch(channel, queue, clock) = "recv"
    /\ pc' = "recv"
    /\ end_cycles' = cycles_before_recv(end_cycles)
    /\ UNCHANGED <<qvars_but_pc, channel, connected, sent, clock,
                   should_exit, et, feedback, applied, start, observe, xvars>>

\* recv answers a message: end_cycles, then it is applied at the clock's time.
RecvUpdate ==
    /\ pc = "recv"
    /\ channel # <<>>
    /\ end_cycles' = end_cycles + 1
    /\ feedback' = Feedback("end_cycles")
    /\ apply_update(Head(channel), clock)
    /\ pc' = "run"
    /\ UNCHANGED <<connected, sent, clock, et, start, observe, xvars>>

\* recv answers an error: the channel is closed and empty.
RecvClosed ==
    /\ pc = "recv"
    /\ channel = <<>>
    /\ ~connected
    /\ should_exit' = TRUE
    /\ pc' = "run"
    /\ UNCHANGED <<qvars_but_pc, channel, connected, sent, clock, et,
                   end_cycles, feedback, applied, start, observe, xvars>>

\* The loop ends: end_cycles, and run returns.
RunReturn ==
    /\ pc = "run"
    /\ should_exit
    /\ end_cycles' = end_cycles + 1
    /\ feedback' = Feedback("end_cycles")
    /\ pc' = "returned"
    /\ UNCHANGED <<qvars_but_pc, channel, connected, sent, clock,
                   should_exit, et, applied, start, observe, xvars>>

\* A sender sends an interruption.
Send ==
    /\ pc # "returned"
    /\ connected
    /\ sent < MaxMsgs
    /\ \E upd \in Interruptions(sent) :
          /\ upd.enq # NoTime => nextId + Reserved < MaxEvents
          /\ channel' = Append(channel, upd)
    /\ sent' = sent + 1
    /\ UNCHANGED <<qvars, connected, clock, should_exit, et, end_cycles,
                   feedback, applied, start, observe, xvars>>

\* The last sender is dropped.
Close ==
    /\ pc # "returned"
    /\ connected
    /\ connected' = FALSE
    /\ UNCHANGED <<qvars, channel, sent, clock, should_exit, et, end_cycles,
                   feedback, applied, start, observe, xvars>>

\* The time the clock answers moves on; it is capped at MaxTime.
Tick ==
    /\ pc # "returned"
    /\ clock < MaxTime
    /\ clock' = clock + 1
    /\ UNCHANGED <<qvars, channel, connected, sent, should_exit, et,
                   end_cycles, feedback, applied, start, observe, xvars>>

ServerStep ==
    \/ RunUpdate
    \/ RunInvoke
    \/ RunSleep
    \/ SleepUpdate
    \/ SleepTimeout
    \/ RunBlock
    \/ RecvUpdate
    \/ RecvClosed
    \/ RunReturn

ServerNext ==
    \/ RunUpdate
    \/ RunInvoke
    \/ RunSleep
    \/ SleepUpdate
    \/ SleepTimeout
    \/ RunBlock
    \/ RecvUpdate
    \/ RecvClosed
    \/ RunReturn
    \/ Send
    \/ Close
    \/ Tick

SpecServer == ServerInit /\ [][ServerNext]_vars

\* The server's thread keeps running, and the clock keeps moving.
FairServer ==
    QuietInit /\ [][ServerNext]_vars /\ WF_vars(ServerStep) /\ WF_vars(Tick)

----------------------------------------------------------------------------
\* EntityHeap

\* The event queue while no caller uses it.
QueueIdle ==
    /\ now = 0
    /\ queue = {}
    /\ nextId = 0
    /\ invoked = 0
    /\ hi = NoTime
    /\ late = FALSE
    /\ pc = "idle"
    /\ sim = NoSim
    /\ last = [op |-> "new", arg |-> 0, ret |-> FALSE, ev |-> NoEvent,
               n |-> 0, m |-> 0, now0 |-> 0, queue0 |-> {}, hi0 |-> NoTime]

\* What a failed downcast ends in: the expect of DOWNCAST_ERROR panics.
Panic == "panic"

\* A key that leaves the type out.
key_untyped(ty, id) == <<"V", id>>

\* The Key of an entity: the TypeId of its type and its UID.
key(ty, id) == <<ty, id>>

\* A Box<Any> holding the entity val of type ty.
Box(ty, val) == [ty |-> ty, val |-> val]

\* unwrap_box, unwrap_box_ref: the downcast of a Box<Any> to the type ty.
unwrap_box(b, ty) == IF b.ty = ty THEN b.val ELSE Panic

\* HashMap::insert, HashMap::remove and HashMap::contains_key.
insert(c, k, b) == [x \in DOMAIN c \cup {k} |-> IF x = k THEN b ELSE c[x]]

remove(c, k) == [x \in DOMAIN c \ {k} |-> c[x]]

contains_key(c, k) == k \in DOMAIN c

\* EntityHeap::get, and what EntityHeap::remove returns.
get(c, ty, k) ==
    IF contains_key(c, key(ty, k)) THEN unwrap_box(c[key(ty, k)], ty)
    ELSE NoValue

\* A new_uid that returns the first number of the generator.
new_uid_unchecked(c, ty) == UIDs

\* EntityHeap::new_uid: the UIDs its loop can return, the generator
\* answering any number at each turn.
new_uid(c, ty) == {id \in UIDs : ~contains_key(c, key(ty, id))}

\* Whether the maps c and d hold the same entries at every key but k.
SameBut(c, d, k) ==
    /\ DOMAIN c \ {k} = DOMAIN d \ {k}
    /\ \A x \in DOMAIN c \ {k} : c[x] = d[x]

\* The record of an operation of the heap on the entity (ty, id).
HeapRecord(op, ty, id, val, ret, c) ==
    [op |-> op, ty |-> ty, uid |-> id, val |-> val, ret |-> ret,
     was |-> shadow[<<ty, id>>],
     had |-> contains_key(content, key(ty, id)),
     reissued |-> <<ty, id>> \in issued,
     grown |-> Cardinality(DOMAIN c) - Cardinality(DOMAIN content),
     others |-> SameBut(content, c, key(ty, id))]

HeapInit == QueueIdle /\ ServerIdle /\ ClockIdle /\ HeapIdle

\* EntityHeap::add of the entity v of type ty; it returns id.
Add ==
    /\ \E ty \in Types, v \in Values, id \in UIDs :
          /\ id \in new_uid(content, ty)
          /\ content' = insert(content, key(ty, id), Box(ty, v))
          /\ shadow' = [shadow EXCEPT ![<<ty, id>>] = v]
          /\ issued' = issued \cup {<<ty, id>>}
          /\ hlast' = HeapRecord("add", ty, id, v, NoValue, content')
    /\ UNCHANGED <<qvars, channel, connected, sent, clock, should_exit, et,
                   end_cycles, feedback, applied, start, observe, cvars>>

\* EntityHeap::get of the entity (ty, k).
Get ==
    /\ \E ty \in Types, k \in UIDs :
          hlast' = HeapRecord("get", ty, k, NoValue, get(content, ty, k),
                              content)
    /\ UNCHANGED <<qvars, channel, connected, sent, clock, should_exit, et,
                   end_cycles, feedback, applied, start, observe, cvars,
                   content, shadow, issued>>

\* EntityHeap::remove of the entity (ty, k).
Remove ==
    /\ \E ty \in Types, k \in UIDs :
          /\ content' = remove(content, key(ty, k))
          /\ shadow' = [shadow EXCEPT ![<<ty, k>>] = NoValue]
          /\ hlast' = HeapRecord("remove", ty, k, NoValue,
                                 get(content, ty, k), content')
    /\ UNCHANGED <<qvars, channel, connected, sent, clock, should_exit, et,
                   end_cycles, feedback, applied, start, observe, cvars,
                   issued>>

HeapNext ==
    \/ Add
    \/ Get
    \/ Remove

SpecHeap == HeapInit /\ [][HeapNext]_vars

----------------------------------------------------------------------------
\* Simple, the clock of clock.rs

\* The From<time::Duration> of Diff<T>, which the user of Simple supplies:
\* a wall tick is half a unit of T, and the conversion rounds down.
from_duration(d) == d \div 2

\* Instant::duration_since; no call of the model has w before s.
duration_since(w, s) == IF w >= s THEN w - s ELSE 0

elapsed_as_of(s, w) == IF s # NoTime THEN duration_since(w, s) ELSE 0

\* Simple::time of the clock (start_instant s, last_time l) at the instant w.
time(s, l, w) == l + from_duration(elapsed_as_of(s, w))

in_game(s, l, w) == time(s, l, w)

\* A stop that keeps the last_time it had.
stop_forgetful(s, l, w) == [start_instant |-> NoTime, last_time |-> l]

\* Simple::stop: the fields it leaves.
stop(s, l, w) == [start_instant |-> NoTime, last_time |-> time(s, l, w)]

\* Simple::start: the fields it leaves.
start_at(s, l, w) == [stop(s, l, w) EXCEPT !.start_instant = w]

\* The record of an operation of the clock: its instant, the time the clock
\* answered for that instant before the operation, and the two last answers
\* of in_game.
ClockRecord(op, reading, prev) ==
    [op |-> op, at |-> wall,
     before |-> time(start_instant, last_time, wall),
     reading |-> reading, prev |-> prev]

\* Simple::new(start_time).
ClockInit ==
    /\ QueueIdle
    /\ ServerIdle
    /\ HeapIdle
    /\ start_instant = NoTime
    /\ last_time \in Times
    /\ wall = 0
    /\ clast = NoClockOp

ClockStart ==
    /\ start_instant' = start_at(start_instant, last_time, wall).start_instant
    /\ last_time' = start_at(start_instant, last_time, wall).last_time
    /\ clast' = ClockRecord("start", clast.reading, clast.prev)
    /\ UNCHANGED <<qvars, channel, connected, sent, clock, should_exit, et,
                   end_cycles, feedback, applied, start, observe, hvars,
                   wall>>

ClockStop ==
    /\ start_instant' = stop(start_instant, last_time, wall).start_instant
    /\ last_time' = stop(start_instant, last_time, wall).last_time
    /\ clast' = ClockRecord("stop", clast.reading, clast.prev)
    /\ UNCHANGED <<qvars, channel, connected, sent, clock, should_exit, et,
                   end_cycles, feedback, applied, start, observe, hvars,
                   wall>>

ClockInGame ==
    /\ clast' = ClockRecord("in_game",
                            in_game(start_instant, last_time, wall),
                            clast.reading)
    /\ UNCHANGED <<qvars, channel, connected, sent, clock, should_exit, et,
                   end_cycles, feedback, applied, start, observe, hvars,
                   start_instant, last_time, wall>>

\* Wall time passes.
Wait ==
    /\ wall < MaxWall
    /\ wall' = wall + 1
    /\ UNCHANGED <<qvars, channel, connected, sent, clock, should_exit, et,
                   end_cycles, feedback, applied, start, observe, hvars,
                   start_instant, last_time, clast>>

ClockNext ==
    \/ ClockStart
    \/ ClockStop
    \/ ClockInGame
    \/ Wait

SpecClock == ClockInit /\ [][ClockNext]_vars

----------------------------------------------------------------------------
\* Properties of the event queue.

QueueOps ==
    {"enqueue_absolute", "enqueue_relative", "progress_time", "invoke_next",
     "simulate"}

Dispatched == last.op = "invoke_next" /\ last.ret

\* C1: now never decreases: after each of enqueue_absolute,
\* enqueue_relative, progress_time, invoke_next and simulate, with any
\* argument and any queue, now is at least what it was before the operation.
NowNeverDecreases == last.op \in QueueOps => now >= last.now0

\* C2: progress_time(u) sets now to min(u, soonest_before) and returns true
\* exactly when soonest_before <= u; on an empty queue it sets now to u and
\* returns false; it leaves the queued events unchanged.
ProgressTimeContract ==
    last.op = "progress_time" =>
        /\ queue = last.queue0
        /\ IF last.queue0 = {}
              THEN now = last.arg /\ last.ret = FALSE
              ELSE LET soonest_before ==
                           Min({e.execute_time : e \in last.queue0})
                   IN  /\ now = Min2(last.arg, soonest_before)
                       /\ last.ret = (soonest_before <= last.arg)

\* progress_time found an event due before until, and brought now to it.
ProgressTimeWitness ==
    /\ last.op = "progress_time"
    /\ last.ret
    /\ now < last.arg
    /\ Cardinality(queue) >= 2

\* C3: an invoke_next that dispatches an event of execute_time t leaves
\* now = max(now_before, t); the event it dispatches is an earliest one, so
\* an event with execute_time <= now is dispatched without moving now; on
\* an empty queue invoke_next changes nothing.
InvokeNextNow ==
    last.op = "invoke_next" =>
        IF last.ret
          THEN /\ last.ev \in last.queue0
               /\ \A x \in last.queue0 :
                      last.ev.execute_time <= x.execute_time
               /\ now = Max2(last.now0, last.ev.execute_time)
               /\ now >= last.ev.execute_time
               /\ now >= last.now0
               /\ (last.ev.execute_time <= last.now0 => now = last.now0)
          ELSE /\ now = last.now0
               /\ queue = last.queue0
               /\ queue = {}

\* An event enqueued in the past was dispatched, and now did not move.
InvokeNextWitness ==
    /\ Dispatched
    /\ last.ev.execute_time < last.now0
    /\ now = last.now0

\* C4: one call of invoke_next pops and dispatches all the events of the
\* tie group at the soonest time: none of the events that had the soonest
\* execute_time before the call is in the queue after it.
InvokeNextPopsTieGroup ==
    Dispatched =>
        \A x \in last.queue0 :
            x.execute_time = last.ev.execute_time => x \notin queue

\* C5: events of equal execute_time are dispatched in the order of their
\* insertion: an event is dispatched only when no event of the same
\* execute_time inserted before it is in the queue.
TiesDispatchFifo ==
    Dispatched =>
        \A x \in last.queue0 :
            x.execute_time = last.ev.execute_time => x.id >= last.ev.id

\* C6: every invoke_next dispatches an event whose execute_time is the
\* minimum over the queue at the call, and while no event was pushed after
\* the first dispatch the dispatched execute_times are non-decreasing.
DispatchAscending ==
    /\ Dispatched =>
          /\ last.ev \in last.queue0
          /\ \A x \in last.queue0 : last.ev.execute_time <= x.execute_time
    /\ (Dispatched /\ ~late) => last.hi0 <= last.ev.execute_time
    /\ ~late => \A x \in queue : hi <= x.execute_time

\* The event inserted first was dispatched last, after events of a lower
\* execute_time inserted after it.
DispatchAscendingWitness ==
    /\ Dispatched
    /\ ~late
    /\ invoked >= 3
    /\ last.ev.id = 0
    /\ last.hi0 < last.ev.execute_time

\* C7: simulate(until) dispatches every event of execute_time <= until, the
\* ones pushed by the events it dispatches included, and no event of
\* execute_time > until; when it returns now = until and the queue is empty
\* or its soonest time is after until.  Every event that left the queue was
\* invoked.
SimulateDrains ==
    /\ (pc = "simulate" /\ Dispatched) => last.ev.execute_time <= sim.until
    /\ last.op = "simulate" =>
          /\ now = last.arg
          /\ \A x \in queue : x.execute_time > last.arg
    /\ nextId = Cardinality(queue) + invoked

\* simulate dispatched events, one of them pushed by an event it dispatched,
\* and left a later event in the queue.
SimulateWitness ==
    /\ last.op = "simulate"
    /\ last.n + Cardinality(queue) = nextId
    /\ last.m > Cardinality(queue)
    /\ queue # {}

----------------------------------------------------------------------------
\* Properties of the server.

StartedClosedAndEmpty ==
    start.closed /\ start.channel_empty /\ start.queue_empty

\* C8: empty shutdown: when run starts with the channel closed and empty and
\* the queue empty, it dispatches no event, applies no interruption and
\* never sleeps, it can always take its next step until it has returned,
\* and end_cycles is called once in all, at the return.
EmptyShutdown ==
    StartedClosedAndEmpty =>
        /\ invoked = 0
        /\ applied = <<>>
        /\ pc \in {"run", "recv", "returned"}
        /\ end_cycles = (IF pc = "returned" THEN 1 ELSE 0)
        /\ pc # "returned" => ENABLED ServerStep

\* run was started on a closed, empty channel and an empty queue, and has
\* returned.
EmptyShutdownWitness == StartedClosedAndEmpty /\ pc = "returned"

\* C9: an applied interruption whose update returns true is the last one
\* applied and the last operation on the queue: run then only calls
\* end_cycles and returns, whatever is due or waiting; should_exit is set
\* only by such an update or by the closed, empty channel with an empty
\* queue, never by an update that returns false.
StopOnlyByUpdate ==
    /\ \A i \in 1..Len(applied) :
          applied[i].stop =>
              /\ i = Len(applied)
              /\ should_exit
              /\ last.op = "apply_update"
              /\ pc \in {"run", "returned"}
    /\ should_exit =>
          \/ applied # <<>> /\ applied[Len(applied)].stop
          \/ ~connected /\ channel = <<>> /\ queue = {}
    /\ (should_exit /\ pc = "run") =>
          /\ ENABLED RunReturn
          /\ ~ENABLED (RunUpdate \/ RunInvoke \/ RunSleep \/ RunBlock)
    /\ pc = "returned" => should_exit /\ feedback = "end_cycles"

\* run returned on an update that returned true, while an event was due and
\* another message was waiting.
StopWitness ==
    /\ pc = "returned"
    /\ applied # <<>>
    /\ applied[Len(applied)].stop
    /\ channel # <<>>
    /\ has_event_by(queue, clock)

\* C10: drain then exit: from the moment the channel is closed and empty and
\* no stop was asked for, with a clock that keeps moving, run dispatches
\* every queued event and then returns.
DrainThenExit ==
    (~connected /\ channel = <<>> /\ ~should_exit /\ pc # "returned")
        ~> (pc = "returned" /\ queue = {} /\ invoked = nextId)

\* run was started on a closed channel with an event that was not due,
\* slept for it, dispatched it and the event it pushed, and returned.
DrainThenExitWitness ==
    /\ start.closed
    /\ ~start.queue_empty
    /\ pc = "returned"
    /\ queue = {}
    /\ invoked >= 2
    /\ end_cycles >= 2

----------------------------------------------------------------------------
\* Properties of the entity heap.

\* C11: the entity store is a map keyed by (type, uid): get of every key
\* answers what the last add or remove of that key left (None when nothing
\* was stored or the last mutation was a remove); remove answers that value
\* and leaves the key absent; an operation on (V', uid) leaves every other
\* entry, that of (V, uid) included, as it was.
StoreIsMap ==
    /\ \A ty \in Types, k \in UIDs : get(content, ty, k) = shadow[<<ty, k>>]
    /\ hlast.op = "get" => hlast.ret = hlast.was /\ hlast.grown = 0
    /\ hlast.op = "remove" =>
          /\ hlast.ret = hlast.was
          /\ get(content, hlast.ty, hlast.uid) = NoValue
    /\ hlast.op = "add" => get(content, hlast.ty, hlast.uid) = hlast.val
    /\ hlast.others

\* An entity was removed, and its value returned, while the other type
\* holds another value under the same uid.
StoreIsMapWitness ==
    /\ hlast.op = "remove"
    /\ hlast.ret \in Values
    /\ \E ty \in Types \ {hlast.ty} :
          /\ get(content, ty, hlast.uid) \in Values
          /\ get(content, ty, hlast.uid) # hlast.ret

\* C12: no two calls of add for one type return the same UID, also when
\* the entity of the earlier call was removed in between.
AddedUidsDistinct == hlast.op = "add" => ~hlast.reissued

\* C20: add stores its entity under a key that held no entry before the
\* call: the `reused key` assertion holds, the number of entries grows by
\* one, and every other entry is unchanged.
AddNeverOverwrites ==
    hlast.op = "add" =>
        /\ ~hlast.had
        /\ hlast.was = NoValue
        /\ hlast.grown = 1
        /\ hlast.others
        /\ contains_key(content, key(hlast.ty, hlast.uid))

\* add stored an entity while another entity of its type and an entity of
\* the other type under the same uid were live.
AddNeverOverwritesWitness ==
    /\ hlast.op = "add"
    /\ \E k \in UIDs \ {hlast.uid} : contains_key(content, key(hlast.ty, k))
    /\ \E ty \in Types \ {hlast.ty} :
          contains_key(content, key(ty, hlast.uid))

----------------------------------------------------------------------------
\* Properties of the simple clock.

\* C13: the answers of in_game never decrease over calls of start, stop and
\* in_game at wall instants that never decrease; a stopped clock answers
\* its last_time for every instant, a running clock answers last_time plus
\* the time since start_instant; a start or a stop at the instant w leaves
\* the answer for w as it was, and start leaves what stop then start does.
SimpleMonotone ==
    /\ (clast.op = "in_game" /\ clast.prev # NoTime) =>
          clast.prev <= clast.reading
    /\ clast.reading # NoTime =>
          clast.reading <= in_game(start_instant, last_time, wall)
    /\ \A w1, w2 \in wall..MaxWall :
          w1 <= w2 => in_game(start_instant, last_time, w1)
                         <= in_game(start_instant, last_time, w2)
    /\ start_instant = NoTime =>
          \A w \in Instants : in_game(start_instant, last_time, w) = last_time
    /\ start_instant # NoTime =>
          /\ start_instant <= wall
          /\ \A w \in wall..MaxWall :
                in_game(start_instant, last_time, w)
                    = last_time + ((w - start_instant) \div 2)
    /\ clast.op \in {"start", "stop"} =>
          in_game(start_instant, last_time, clast.at) = clast.before
    /\ clast.op = "start" =>
          /\ start_instant = clast.at
          /\ last_time = clast.before
    /\ clast.op = "stop" =>
          /\ start_instant = NoTime
          /\ last_time = clast.before

\* A running clock that was stopped and started again after time had
\* passed answered a later time than at its call of in_game before.
SimpleMonotoneWitness ==
    /\ clast.op = "in_game"
    /\ clast.prev # NoTime
    /\ clast.prev < clast.reading
    /\ start_instant # NoTime
    /\ start_instant > 0
    /\ last_time > MaxTime

----------------------------------------------------------------------------
\* Properties of the server's loop.

\* C14: every interruption is applied at the clock's time: the time run
\* passes to progress_time before an update is a time the clock has
\* answered, so it is never later than the clock's time, and never the
\* execute_time of an event the clock has not reached.
UpdateAtClockTime == last.op = "apply_update" => last.arg <= clock

\* C15: under a clock whose answers never decrease, now never decreases
\* during run: it is not lower after an apply_update or an invoke_next
\* than it was before.
ServerNowNeverDecreases ==
    last.op \in {"apply_update", "invoke_next"} => now >= last.now0

\* C16: every apply_update is preceded in its turn of the loop by a call
\* of finished_cycle with no end_cycles after it: the last call of the
\* clock's feedback before an update is finished_cycle.
FinishedCycleBeforeUpdate ==
    last.op = "apply_update" => last.fb = "finished_cycle"

\* C17: end_cycles is called before the blocking receive begins: while the
\* thread is blocked in recv, the last call of the clock's feedback is
\* end_cycles.
EndCyclesBeforeBlocking == pc = "recv" => feedback = "end_cycles"

\* C18: run never dispatches ahead of the clock: invoke_next is called only
\* in a turn where try_recv answered no message and the soonest
\* execute_time is at most the clock's answer of that turn, so every
\* dispatched event has an execute_time at most the clock's time; a
\* waiting interruption is applied before a due event; no event leaves the
\* queue without being invoked.
NeverAheadOfClock ==
    /\ Dispatched =>
          /\ last.ev.execute_time <= last.arg
          /\ last.arg <= clock
    /\ ENABLED RunInvoke =>
          /\ channel = <<>>
          /\ soonest(queue) # NoTime
          /\ soonest(queue) <= clock
    /\ (pc = "run" /\ ~should_exit /\ channel # <<>>) =>
          /\ ENABLED RunUpdate
          /\ ~ENABLED RunInvoke
    /\ nextId = Cardinality(queue) + invoked

\* run slept for an event, an interruption was applied meanwhile, and the
\* event was dispatched when the clock had reached its execute_time.
NeverAheadOfClockWitness ==
    /\ Dispatched
    /\ last.ev.execute_time = last.arg
    /\ last.arg > 0
    /\ end_cycles > 0
    /\ applied # <<>>
    /\ queue # {}

\* C19: no interruption is lost or duplicated: the interruptions applied
\* are the first ones sent, each once and in the order of sending, the
\* others wait in the channel; an interruption received during a sleep is
\* applied while the event run was sleeping for is still queued.
NoInterruptionLostOrDuplicated ==
    /\ Len(applied) + Len(channel) = sent
    /\ \A i \in 1..Len(applied) : applied[i].id = i - 1
    /\ \A i \in 1..Len(channel) : channel[i].id = Len(applied) + i - 1
    /\ last.op = "apply_update" =>
          /\ applied # <<>>
          /\ applied[Len(applied)].id = last.id
    /\ (last.op = "apply_update" /\ last.by = "sleep") =>
          \E e \in queue : e.execute_time = last.arg
    /\ pc = "sleep" => et # NoTime /\ et = soonest(queue)

\* A second interruption was received during a sleep and applied, after a
\* first one was applied and an event was dispatched.
NoInterruptionLostWitness ==
    /\ last.op = "apply_update"
    /\ last.by = "sleep"
    /\ Len(applied) >= 2
    /\ invoked >= 1

====
